---- MODULE Spec2Model ----
(***************************************************************************)
(* Model of the Nest-Auth-Standard task-management API: registration and   *)
(* login (AuthService), the JWT authentication guard and strategy, the     *)
(* roles guard, the users service and controller, and the tasks service    *)
(* and controller with the two caches that sit in front of the task        *)
(* repository (HttpCacheInterceptor and TasksService.findAll).             *)
(*                                                                         *)
(* One action is one HTTP request, taken through the whole pipeline:       *)
(* guards, interceptor, pipes, handler, interceptor tail.                  *)
(***************************************************************************)
EXTENDS Integers, Sequences, FiniteSets, TLC

VARIABLES
    users,       \* user table: id -> row                  (user.entity.ts)
    nextUserId,  \* ids handed out so far + 1 (generated uuids are never reused)
    tasks,       \* task table: id -> row                  (task.entity.ts)
    nextTaskId,  \* same, for tasks; also the creation order (createdAt)
    cache,       \* the shared cache store: key -> cached payload
    now,         \* wall clock, in units of the token lifetime
    issued,      \* tokens handed to clients by register and login
    resp,        \* the response delivered by the latest request
    calls        \* service calls suspended at an await, in order of arrival

vars == <<users, nextUserId, tasks, nextTaskId, cache, now, issued, resp, calls>>

(***************************************************************************)
(* Bounds of the model.                                                    *)
(***************************************************************************)
MaxUsers  == 2
MaxTasks  == 1
MaxTime   == 1
MaxTokens == 2

(***************************************************************************)
(* Program constants.                                                      *)
(***************************************************************************)
ADMIN == "admin"
USER  == "user"
UserRole == {ADMIN, USER}

\* jwt.expiresIn, '1h': the clock counts hours
ExpiresIn == 1
JwtSecret == "jwt.secret"

TODO        == "todo"
IN_PROGRESS == "in_progress"
DONE        == "done"
TaskStatus  == {TODO, IN_PROGRESS, DONE}

LOW    == "low"
MEDIUM == "medium"
HIGH   == "high"
TaskPriority == {LOW, MEDIUM, HIGH}

(***************************************************************************)
(* Small helpers.                                                          *)
(***************************************************************************)
Range(f) == {f[x] : x \in DOMAIN f}

Without(f, k) == [x \in DOMAIN f \ {k} |-> f[x]]

\* an assignment that copies nothing
ObjectAssignNothing(target, patch) == target

\* Object.assign(target, patch): the patch's own properties overwrite
ObjectAssign(target, patch) ==
    [f \in DOMAIN target |-> IF f \in DOMAIN patch THEN patch[f] ELSE target[f]]

(***************************************************************************)
(* Responses.  status is the HTTP status; ran tells whether the            *)
(* controller's handler was invoked; caller is the id of the user the      *)
(* authentication guard attached (0 when none).                            *)
(***************************************************************************)
NoBody == [kind |-> "none"]
NoUser == [id |-> 0]

Response(route, req, caller, ran, status, message, body) ==
    [route |-> route, req |-> req, caller |-> caller, ran |-> ran,
     status |-> status, message |-> message, body |-> body]

Idle == Response("-", [none |-> TRUE], 0, FALSE, 0, "", NoBody)

(***************************************************************************)
(* Password hasher.  bcrypt.hash is one-way; compare re-hashes the input.  *)
(***************************************************************************)
BcryptHash(password) == <<"$2b$10$", password>>

BcryptCompare(password, hash) == BcryptHash(password) = hash

(***************************************************************************)
(* Token service.                                                          *)
(***************************************************************************)
\* JwtService.sign with signOptions.expiresIn
JwtSign(payload) ==
    [kind |-> "jwt", sub |-> payload.sub, email |-> payload.email,
     iat |-> now, exp |-> now + ExpiresIn, sig |-> JwtSecret]

GenerateToken(userId, email) == JwtSign([sub |-> userId, email |-> email])

\* what a request may carry in its Authorization header
NoToken        == [kind |-> "none", sub |-> 0, email |-> "", iat |-> 0, exp |-> 0, sig |-> ""]
MalformedToken == [kind |-> "malformed", sub |-> 0, email |-> "", iat |-> 0, exp |-> 0, sig |-> ""]
Forged(tok)    == [tok EXCEPT !.sig = "other.secret", !.exp = MaxTime + 1]

Presentable == issued \cup {Forged(t) : t \in issued} \cup {NoToken, MalformedToken}

\* a verifier with ignoreExpiration: true
JwtVerifyExpiredAccepted(tok) ==
    /\ tok.kind = "jwt"
    /\ tok.sig = JwtSecret

\* a verifier that does not check the signature
JwtVerifyAnySignature(tok) ==
    /\ tok.kind = "jwt"
    /\ now < tok.exp

\* passport-jwt: a bearer token is extracted, its signature checked with
\* secretOrKey, and (ignoreExpiration: false) its exp compared with the clock
JwtVerify(tok) ==
    /\ tok.kind = "jwt"
    /\ tok.sig = JwtSecret
    /\ now < tok.exp

(***************************************************************************)
(* Users service.                                                          *)
(***************************************************************************)
Ok(user)              == [status |-> 200, message |-> "", user |-> user]
Fail(status, message) == [status |-> status, message |-> message, user |-> NoUser]

\* case folding over the addresses of Emails
LowerCase(email) == IF email = "Root@x" THEN "root@x" ELSE email

\* a lookup that folds case before comparing
FindByEmailIgnoringCase(email) ==
    {id \in DOMAIN users : LowerCase(users[id].email) = LowerCase(email)}

\* UsersService.findByEmail: exact match on the stored email
FindByEmail(email) == {id \in DOMAIN users : users[id].email = email}

\* UsersService.findOne
UsersFindOne(id) ==
    IF id \in DOMAIN users THEN Ok(users[id])
    ELSE Fail(404, "User with ID not found")

\* UsersService.create: the entity's column defaults fill role and isActive
NewUser(dto) ==
    [id |-> nextUserId, email |-> dto.email, password |-> dto.password,
     firstName |-> dto.firstName, lastName |-> dto.lastName,
     role |-> USER, isActive |-> TRUE]

\* the user view returned by register and login
UserView(user) ==
    [id |-> user.id, email |-> user.email, firstName |-> user.firstName,
     lastName |-> user.lastName, role |-> user.role]

(***************************************************************************)
(* Authentication: AuthService.validateUser, JwtStrategy.validate,         *)
(* JwtAuthGuard.canActivate and handleRequest.                             *)
(***************************************************************************)
\* a validateUser without the isActive check
ValidateUserIgnoringActive(payload) == UsersFindOne(payload.sub)

\* returns the user, null (NoUser) for an inactive one, or findOne's error
ValidateUser(payload) ==
    LET found == UsersFindOne(payload.sub) IN
    IF found.status # 200 THEN found
    ELSE IF ~found.user.isActive THEN Ok(NoUser)
    ELSE found

JwtStrategyValidate(payload) ==
    LET v == ValidateUser(payload) IN
    IF v.status # 200 THEN v
    ELSE IF v.user.id = 0 THEN Fail(401, "User not found or inactive")
    ELSE v

JwtAuthGuard(isPublic, tok) ==
    IF isPublic THEN Ok(NoUser)
    ELSE IF ~JwtVerify(tok) THEN Fail(401, "Invalid or expired token")
    ELSE JwtStrategyValidate(tok)

\* a guard that only asks for an attached user
RolesGuardIgnoringRole(requiredRoles, user) ==
    IF requiredRoles = {} THEN Ok(user)
    ELSE IF user.id = 0 THEN Fail(403, "User not authenticated")
    ELSE Ok(user)

(***************************************************************************)
(* RolesGuard.canActivate.  requiredRoles is the @Roles() metadata of the  *)
(* route: the empty set stands for both "no decorator" and "@Roles()".     *)
(* user is request.user, NoUser when the request carries none.             *)
(***************************************************************************)
RolesGuard(requiredRoles, user) ==
    IF requiredRoles = {} THEN Ok(user)
    ELSE IF user.id = 0 THEN Fail(403, "User not authenticated")
    ELSE IF ~(\E role \in requiredRoles : user.role = role)
         THEN Fail(403, "Access denied. Required role(s)")
    ELSE Ok(user)

\* @UseGuards(JwtAuthGuard, RolesGuard): the guards run in this order and
\* the first failure ends the request
Guards(isPublic, requiredRoles, tok) ==
    LET a == JwtAuthGuard(isPublic, tok)
        r == RolesGuard(requiredRoles, a.user)
    IN
    IF a.status # 200 THEN a ELSE [r EXCEPT !.user = a.user]

(***************************************************************************)
(* ParseUUIDPipe.  Path parameters are modelled as integers: the positive  *)
(* ones stand for well-formed uuids, 0 for any other string.               *)
(***************************************************************************)
\* a validator that passes every string
IsValidUUIDAnything(value) == TRUE

IsValidUUID(value) == value >= 1

PathParams == 0..MaxUsers

(***************************************************************************)
(* Inputs of the auth and users routes.                                    *)
(***************************************************************************)
Emails    == {"root@x", "Root@x"}
Passwords == {"Passw0rd", "Wr0ngPass"}

RegisterInputs ==
    {[email |-> e, password |-> "Passw0rd", firstName |-> "Al", lastName |-> "Doe"] :
        e \in Emails}

LoginInputs == [email : Emails, password : Passwords]

\* UpdateUserDto: every field is optional; a patch holds the fields sent
UserPatches ==
    {[role |-> ADMIN], [role |-> USER], [isActive |-> FALSE], [isActive |-> TRUE]}

\* the database as deployed: one administrator, created outside the API
SeedAdmin ==
    [id |-> 1, email |-> "root@x", password |-> BcryptHash("Passw0rd"),
     firstName |-> "Root", lastName |-> "Doe", role |-> ADMIN, isActive |-> TRUE]

(***************************************************************************)
(* POST /auth/register  (AuthController.register, AuthService.register)    *)
(***************************************************************************)
Register(dto) ==
    LET route == "POST /auth/register"
        existingUser == FindByEmail(dto.email)
        hashedPassword == BcryptHash(dto.password)
        user == NewUser([dto EXCEPT !.password = hashedPassword])
        token == GenerateToken(user.id, user.email)
    IN
    IF existingUser # {}
    THEN /\ resp' = Response(route, dto, 0, TRUE, 409,
                             "User with this email already exists", NoBody)
         /\ UNCHANGED <<users, nextUserId, tasks, nextTaskId, cache, now, issued, calls>>
    ELSE /\ nextUserId <= MaxUsers
         /\ Cardinality(issued \cup {token}) <= MaxTokens
         /\ users' = users @@ (user.id :> user)
         /\ nextUserId' = nextUserId + 1
         /\ issued' = issued \cup {token}
         /\ resp' = Response(route, dto, 0, TRUE, 201, "",
                             [kind |-> "auth", user |-> UserView(user),
                              access_token |-> token])
         /\ UNCHANGED <<tasks, nextTaskId, cache, now, calls>>

\* a login without the isActive check
AuthLoginNoActiveCheck(dto) ==
    LET found == FindByEmail(dto.email)
        user == users[CHOOSE id \in found : TRUE]
    IN
    IF found = {} THEN Fail(401, "Invalid credentials")
    ELSE IF ~BcryptCompare(dto.password, user.password)
         THEN Fail(401, "Invalid credentials")
    ELSE Ok(user)

\* a login that verifies the password before it looks at isActive
AuthLoginPasswordFirst(dto) ==
    LET found == FindByEmail(dto.email)
        user == users[CHOOSE id \in found : TRUE]
    IN
    IF found = {} THEN Fail(401, "Invalid credentials")
    ELSE IF ~BcryptCompare(dto.password, user.password)
         THEN Fail(401, "Invalid credentials")
    ELSE IF ~user.isActive THEN Fail(401, "Account is deactivated")
    ELSE Ok(user)

(***************************************************************************)
(* POST /auth/login  (AuthController.login, AuthService.login)             *)
(***************************************************************************)
\* AuthService.login: the checks, in the order of the code
AuthLogin(dto) ==
    LET found == FindByEmail(dto.email)
        user == users[CHOOSE id \in found : TRUE]
    IN
    IF found = {} THEN Fail(401, "Invalid credentials")
    ELSE IF ~user.isActive THEN Fail(401, "Account is deactivated")
    ELSE IF ~BcryptCompare(dto.password, user.password)
         THEN Fail(401, "Invalid credentials")
    ELSE Ok(user)

Login(dto) ==
    LET route == "POST /auth/login"
        r == AuthLogin(dto)
        token == GenerateToken(r.user.id, r.user.email)
    IN
    /\ IF r.status # 200
       THEN /\ resp' = Response(route, dto, 0, TRUE, r.status, r.message, NoBody)
            /\ UNCHANGED issued
       ELSE /\ token \in issued \/ Cardinality(issued) < MaxTokens
            /\ issued' = issued \cup {token}
            /\ resp' = Response(route, dto, 0, TRUE, 200, "",
                                [kind |-> "auth", user |-> UserView(r.user),
                                 access_token |-> token])
    /\ UNCHANGED <<users, nextUserId, tasks, nextTaskId, cache, now, calls>>

(***************************************************************************)
(* Sorting and paging helpers (ORDER BY ... , skip, take, Math.ceil).      *)
(***************************************************************************)
RECURSIVE Descending(_)
Descending(S) ==
    IF S = {} THEN <<>>
    ELSE LET m == CHOOSE x \in S : \A y \in S : y <= x
         IN  <<m>> \o Descending(S \ {m})

Reverse(seq) == [i \in 1..Len(seq) |-> seq[Len(seq) + 1 - i]]

Min(a, b) == IF a <= b THEN a ELSE b

SkipTake(seq, skip, take) == SubSeq(seq, skip + 1, Min(Len(seq), skip + take))

\* a division that rounds down
Floor(a, b) == a \div b

\* Math.ceil(a / b)
Ceil(a, b) == (a + b - 1) \div b

(***************************************************************************)
(* Users controller.  Every route runs JwtAuthGuard, then RolesGuard, then *)
(* the ParseUUIDPipe of its :id parameter, then the service method.        *)
(***************************************************************************)
Rejected(route, req, g) ==
    Response(route, req, g.user.id, FALSE, g.status, g.message, NoBody)

BadUuid(route, req, g) ==
    Response(route, req, g.user.id, FALSE, 400, "Invalid UUID format", NoBody)

Threw(route, req, g, status, message) ==
    Response(route, req, g.user.id, TRUE, status, message, NoBody)

\* UsersService.findAll: newest first, one page
UsersFindAll(page, limit) ==
    LET ordered == Descending(DOMAIN users)
        rows == [i \in 1..Len(ordered) |-> users[ordered[i]]]
        total == Len(rows)
    IN [kind |-> "users",
        data |-> SkipTake(rows, (page - 1) * limit, limit),
        meta |-> [total |-> total, page |-> page, limit |-> limit,
                  totalPages |-> Ceil(total, limit)]]

\* GET /users
GetUsers(tok) ==
    LET route == "GET /users"
        req == [tok |-> tok]
        g == Guards(FALSE, {ADMIN}, tok)
    IN
    /\ resp' = IF g.status # 200 THEN Rejected(route, req, g)
               ELSE Response(route, req, g.user.id, TRUE, 200, "", UsersFindAll(1, 10))
    /\ UNCHANGED <<users, nextUserId, tasks, nextTaskId, cache, now, issued, calls>>

\* GET /users/me
GetProfile(tok) ==
    LET route == "GET /users/me"
        req == [tok |-> tok]
        g == Guards(FALSE, {}, tok)
    IN
    /\ resp' = IF g.status # 200 THEN Rejected(route, req, g)
               ELSE Response(route, req, g.user.id, TRUE, 200, "",
                             [kind |-> "user", user |-> g.user])
    /\ UNCHANGED <<users, nextUserId, tasks, nextTaskId, cache, now, issued, calls>>

\* GET /users/:id
GetUser(tok, id) ==
    LET route == "GET /users/:id"
        req == [tok |-> tok, id |-> id]
        g == Guards(FALSE, {}, tok)
        found == UsersFindOne(id)
    IN
    /\ resp' = IF g.status # 200 THEN Rejected(route, req, g)
               ELSE IF ~IsValidUUID(id) THEN BadUuid(route, req, g)
               ELSE IF found.status # 200
                    THEN Threw(route, req, g, found.status, found.message)
               ELSE Response(route, req, g.user.id, TRUE, 200, "",
                             [kind |-> "user", user |-> found.user])
    /\ UNCHANGED <<users, nextUserId, tasks, nextTaskId, cache, now, issued, calls>>

\* an update without the role check
UsersUpdateRoleUnchecked(id, updateUserDto, currentUser) ==
    LET found == UsersFindOne(id) IN
    IF found.status # 200 THEN found
    ELSE IF currentUser.id # id /\ currentUser.role # ADMIN
         THEN Fail(403, "You can only update your own profile")
    ELSE Ok(ObjectAssign(found.user, updateUserDto))

\* an update that leaves isActive as it is stored
UsersUpdateKeepingActive(id, updateUserDto, currentUser) ==
    LET found == UsersFindOne(id) IN
    IF found.status # 200 THEN found
    ELSE IF currentUser.id # id /\ currentUser.role # ADMIN
         THEN Fail(403, "You can only update your own profile")
    ELSE IF "role" \in DOMAIN updateUserDto /\ currentUser.role # ADMIN
         THEN Fail(403, "Only admins can change user roles")
    ELSE Ok([ObjectAssign(found.user, updateUserDto) EXCEPT
                !.isActive = found.user.isActive])

\* UsersService.update: the outcome and the row to save
UsersUpdate(id, updateUserDto, currentUser) ==
    LET found == UsersFindOne(id) IN
    IF found.status # 200 THEN found
    ELSE IF currentUser.id # id /\ currentUser.role # ADMIN
         THEN Fail(403, "You can only update your own profile")
    ELSE IF "role" \in DOMAIN updateUserDto /\ currentUser.role # ADMIN
         THEN Fail(403, "Only admins can change user roles")
    ELSE Ok(ObjectAssign(found.user, updateUserDto))

\* PATCH /users/:id
UpdateUser(tok, id, patch) ==
    LET route == "PATCH /users/:id"
        req == [tok |-> tok, id |-> id, patch |-> patch]
        g == Guards(FALSE, {}, tok)
        u == UsersUpdate(id, patch, g.user)
    IN
    /\ IF g.status # 200
       THEN resp' = Rejected(route, req, g) /\ UNCHANGED users
       ELSE IF ~IsValidUUID(id)
       THEN resp' = BadUuid(route, req, g) /\ UNCHANGED users
       ELSE IF u.status # 200
       THEN resp' = Threw(route, req, g, u.status, u.message) /\ UNCHANGED users
       ELSE /\ users' = [users EXCEPT ![id] = u.user]
            /\ resp' = Response(route, req, g.user.id, TRUE, 200, "",
                                [kind |-> "user", user |-> u.user])
    /\ UNCHANGED <<nextUserId, tasks, nextTaskId, cache, now, issued, calls>>

\* UsersService.remove: soft delete
UsersRemove(id, currentUser) ==
    LET found == UsersFindOne(id) IN
    IF found.status # 200 THEN found
    ELSE IF currentUser.role # ADMIN THEN Fail(403, "Only admins can delete users")
    ELSE Ok([found.user EXCEPT !.isActive = FALSE])

\* DELETE /users/:id
RemoveUser(tok, id) ==
    LET route == "DELETE /users/:id"
        req == [tok |-> tok, id |-> id]
        g == Guards(FALSE, {ADMIN}, tok)
        u == UsersRemove(id, g.user)
    IN
    /\ IF g.status # 200
       THEN resp' = Rejected(route, req, g) /\ UNCHANGED users
       ELSE IF ~IsValidUUID(id)
       THEN resp' = BadUuid(route, req, g) /\ UNCHANGED users
       ELSE IF u.status # 200
       THEN resp' = Threw(route, req, g, u.status, u.message) /\ UNCHANGED users
       ELSE /\ users' = [users EXCEPT ![id] = u.user]
            /\ resp' = Response(route, req, g.user.id, TRUE, 204, "", NoBody)
    /\ UNCHANGED <<nextUserId, tasks, nextTaskId, cache, now, issued, calls>>

\* UsersService.hardDelete: the outcome of the role check and of DELETE
UsersHardDelete(id, currentUser) ==
    IF currentUser.role # ADMIN
    THEN Fail(403, "Only admins can permanently delete users")
    ELSE IF id \notin DOMAIN users THEN Fail(404, "User with ID not found")
    ELSE Ok(users[id])

\* a foreign key that leaves the tasks of a deleted user in place
OnDeleteNoAction(id) == tasks

\* Task.user is declared onDelete: 'CASCADE': the tasks of a deleted user
\* are deleted with the row
OnDeleteCascade(id) ==
    [t \in {x \in DOMAIN tasks : tasks[x].userId # id} |-> tasks[t]]

\* DELETE /users/:id/permanent
HardDeleteUser(tok, id) ==
    LET route == "DELETE /users/:id/permanent"
        req == [tok |-> tok, id |-> id]
        g == Guards(FALSE, {ADMIN}, tok)
        u == UsersHardDelete(id, g.user)
    IN
    /\ IF g.status # 200
       THEN resp' = Rejected(route, req, g) /\ UNCHANGED <<users, tasks>>
       ELSE IF ~IsValidUUID(id)
       THEN resp' = BadUuid(route, req, g) /\ UNCHANGED <<users, tasks>>
       ELSE IF u.status # 200
       THEN resp' = Threw(route, req, g, u.status, u.message) /\ UNCHANGED <<users, tasks>>
       ELSE /\ users' = Without(users, id)
            /\ tasks' = OnDeleteCascade(id)
            /\ resp' = Response(route, req, g.user.id, TRUE, 204, "", NoBody)
    /\ UNCHANGED <<nextUserId, nextTaskId, cache, now, issued, calls>>

(***************************************************************************)
(* Time passes.                                                            *)
(***************************************************************************)
Tick ==
    /\ now < MaxTime
    /\ now' = now + 1
    /\ resp' = Idle
    /\ UNCHANGED <<users, nextUserId, tasks, nextTaskId, cache, issued, calls>>

(***************************************************************************)
(* The authentication and user-management part of the API.                 *)
(***************************************************************************)
EmptyTable == [x \in {} |-> NoBody]

InitAuth ==
    /\ users = (1 :> SeedAdmin)
    /\ nextUserId = 2
    /\ tasks = EmptyTable
    /\ nextTaskId = 1
    /\ cache = EmptyTable
    /\ now = 0
    /\ issued = {}
    /\ resp = Idle
    /\ calls = <<>>

NextAuth ==
    \/ \E dto \in RegisterInputs : Register(dto)
    \/ \E dto \in LoginInputs : Login(dto)
    \/ \E tok \in Presentable : GetUsers(tok)
    \/ \E tok \in Presentable : GetProfile(tok)
    \/ \E tok \in Presentable, id \in PathParams, patch \in UserPatches :
          UpdateUser(tok, id, patch)
    \/ \E tok \in Presentable, id \in PathParams : RemoveUser(tok, id)
    \/ \E tok \in Presentable, id \in PathParams : HardDeleteUser(tok, id)
    \/ Tick

SpecAuth == InitAuth /\ [][NextAuth]_vars

(***************************************************************************)
(* Tasks.  Text columns are sequences of characters, so that ILIKE can be  *)
(* computed; the empty sequence is NULL (no input of the model sends an    *)
(* empty string).  Rows carry the columns the operations read; dueDate is *)
(* not carried.  createdAt is the ordinal of the INSERT; updatedAt counts  *)
(* the UPDATE statements the row has seen since.                           *)
(***************************************************************************)
NullText == <<>>

ToLower(c) ==
    CASE c = "R" -> "r"
      [] c = "E" -> "e"
      [] c = "P" -> "p"
      [] OTHER -> c

LowerText(text) == [i \in 1..Len(text) |-> ToLower(text[i])]

\* PostgreSQL LIKE: % matches any run of characters, _ any one character,
\* every other character itself (no text of the model holds the escape
\* character)
RECURSIVE Like(_, _)
Like(text, pattern) ==
    IF pattern = <<>> THEN text = <<>>
    ELSE IF Head(pattern) = "%"
         THEN \/ Like(text, Tail(pattern))
              \/ text # <<>> /\ Like(Tail(text), pattern)
    ELSE IF text = <<>> THEN FALSE
    ELSE IF Head(pattern) = "_" THEN Like(Tail(text), Tail(pattern))
    ELSE Head(text) = Head(pattern) /\ Like(Tail(text), Tail(pattern))

\* column ILIKE pattern; NULL ILIKE anything is not true
ILike(column, pattern) ==
    /\ column # NullText
    /\ Like(LowerText(column), LowerText(pattern))

\* taskRepository.create + save: column defaults fill what the dto omits
NewTask(dto, userId) ==
    [id |-> nextTaskId,
     title |-> dto.title,
     description |-> IF "description" \in DOMAIN dto THEN dto.description ELSE NullText,
     status |-> IF "status" \in DOMAIN dto THEN dto.status ELSE TODO,
     priority |-> IF "priority" \in DOMAIN dto THEN dto.priority ELSE MEDIUM,
     userId |-> userId,
     createdAt |-> nextTaskId,
     updatedAt |-> 0]

\* a task loaded with relations: ['user']
WithUser(task) ==
    [id |-> task.id, title |-> task.title, description |-> task.description,
     status |-> task.status, priority |-> task.priority, userId |-> task.userId,
     createdAt |-> task.createdAt, updatedAt |-> task.updatedAt,
     user |-> users[task.userId]]

\* the columns of a loaded task that save() writes back
Columns(task) ==
    [id |-> task.id, title |-> task.title, description |-> task.description,
     status |-> task.status, priority |-> task.priority, userId |-> task.userId,
     createdAt |-> task.createdAt, updatedAt |-> task.updatedAt]

\* taskRepository.save of a loaded row: an UPDATE is issued only when a
\* column differs from the stored row, and it refreshes @UpdateDateColumn
Save(task) ==
    IF Columns(task) = tasks[task.id] THEN tasks[task.id]
    ELSE [Columns(task) EXCEPT !.updatedAt = @ + 1]

\* a pipe that lets every property through
ValidationPipeNoWhitelist(dto, required) == required \subseteq DOMAIN dto

\* the global ValidationPipe (whitelist, forbidNonWhitelisted) on a body of
\* CreateTaskDto / UpdateTaskDto: no property outside the class, the
\* required ones present, a title of at least 3 characters
TaskDtoProperties == {"title", "description", "status", "priority", "dueDate"}

ValidationPipe(dto, required) ==
    /\ DOMAIN dto \subseteq TaskDtoProperties
    /\ required \subseteq DOMAIN dto
    /\ "title" \in DOMAIN dto => Len(dto.title) >= 3

(***************************************************************************)
(* FilterTaskDto.  A raw query string is the sequence of its name/value    *)
(* pairs; the dto is the class defaults overwritten by the pairs sent.     *)
(* A filter that was not sent is undefined: "" for status and priority,    *)
(* the empty text for search.                                              *)
(***************************************************************************)
Param(q, name, default) ==
    IF \E i \in 1..Len(q) : q[i][1] = name
    THEN q[CHOOSE i \in 1..Len(q) : q[i][1] = name][2]
    ELSE default

ToFilterDto(q) ==
    [status    |-> Param(q, "status", ""),
     priority  |-> Param(q, "priority", ""),
     search    |-> Param(q, "search", <<>>),
     page      |-> Param(q, "page", 1),
     limit     |-> Param(q, "limit", 10),
     sortBy    |-> Param(q, "sortBy", "createdAt"),
     sortOrder |-> Param(q, "sortOrder", "DESC")]

\* JSON.stringify(filterDto): the defined properties, in order
JsonStringify(dto) ==
    (IF dto.status # "" THEN << <<"status", dto.status>> >> ELSE <<>>)
    \o (IF dto.priority # "" THEN << <<"priority", dto.priority>> >> ELSE <<>>)
    \o (IF dto.search # <<>> THEN << <<"search", dto.search>> >> ELSE <<>>)
    \o << <<"page", dto.page>>, <<"limit", dto.limit>>,
          <<"sortBy", dto.sortBy>>, <<"sortOrder", dto.sortOrder>> >>

(***************************************************************************)
(* The cache store (cache-manager): get, set, reset.                       *)
(***************************************************************************)
CacheHas(key) == key \in DOMAIN cache

CachePut(store, key, value) ==
    [k \in DOMAIN store \cup {key} |-> IF k = key THEN value ELSE store[k]]

EmptyCache == [k \in {} |-> NoBody]

\* HttpCacheInterceptor: `cache:${request.url}`
InterceptorKey(url, user) == <<"cache:", url>>

\* a key made of the criteria alone
ListKeyWithoutOwner(dto, user) == <<"tasks:", 0, JsonStringify(dto)>>

\* TasksService.findAll: `tasks:${user.id}:${JSON.stringify(filterDto)}`
ListKey(dto, user) == <<"tasks:", user.id, JsonStringify(dto)>>

(***************************************************************************)
(* TasksService.                                                           *)
(***************************************************************************)
Matching(dto, user) ==
    {id \in DOMAIN tasks :
        /\ tasks[id].userId = user.id
        /\ dto.status # "" => tasks[id].status = dto.status
        /\ dto.priority # "" => tasks[id].priority = dto.priority
        /\ dto.search # <<>> =>
              LET search == <<"%">> \o dto.search \o <<"%">> IN
              \/ ILike(tasks[id].title, search)
              \/ ILike(tasks[id].description, search)}

\* ORDER BY task.createdAt; the inputs of the model sort by createdAt only
OrderBy(ids, sortBy, sortOrder) ==
    LET byCreatedAtDesc ==
            Descending({tasks[id].createdAt : id \in ids})
        rows == [i \in 1..Len(byCreatedAtDesc) |->
                    tasks[CHOOSE id \in ids : tasks[id].createdAt = byCreatedAtDesc[i]]]
    IN IF sortOrder = "DESC" THEN rows ELSE Reverse(rows)

\* the query of findAll and the result assembled from it
ListResult(dto, user) ==
    LET ids == Matching(dto, user)
        total == Cardinality(ids)
        rows == OrderBy(ids, dto.sortBy, dto.sortOrder)
    IN [kind |-> "list",
        data |-> SkipTake(rows, (dto.page - 1) * dto.limit, dto.limit),
        meta |-> [total |-> total, page |-> dto.page, limit |-> dto.limit,
                  totalPages |-> Ceil(total, dto.limit),
                  hasNextPage |-> dto.page < Ceil(total, dto.limit),
                  hasPreviousPage |-> dto.page > 1]]

\* a findAll that always queries the repository
TasksFindAllUncached(store, dto, user) ==
    [result |-> ListResult(dto, user), source |-> "repository", store |-> store]

\* TasksService.findAll against a store: the result, where it came from,
\* and the store afterwards
TasksFindAll(store, dto, user) ==
    LET cacheKey == ListKey(dto, user) IN
    IF cacheKey \in DOMAIN store
    THEN [result |-> store[cacheKey], source |-> "service", store |-> store]
    ELSE [result |-> ListResult(dto, user), source |-> "repository",
          store |-> CachePut(store, cacheKey, ListResult(dto, user))]

\* a findOne without the ownership check
TasksFindOneNoOwnerCheck(id, user) ==
    IF id \notin DOMAIN tasks THEN [status |-> 404, message |-> "Task with ID not found"]
    ELSE [status |-> 200, message |-> "", task |-> WithUser(tasks[id])]

\* a findOne that asks whose task it is before it asks whether it exists
TasksFindOneOwnerFirst(id, user) ==
    IF user.role # ADMIN /\ (id \notin DOMAIN tasks \/ tasks[id].userId # user.id)
    THEN [status |-> 403, message |-> "You can only access your own tasks"]
    ELSE IF id \notin DOMAIN tasks
         THEN [status |-> 404, message |-> "Task with ID not found"]
    ELSE [status |-> 200, message |-> "", task |-> WithUser(tasks[id])]

\* TasksService.findOne: existence, then ownership
TasksFindOne(id, user) ==
    IF id \notin DOMAIN tasks THEN [status |-> 404, message |-> "Task with ID not found"]
    ELSE IF tasks[id].userId # user.id /\ user.role # ADMIN
         THEN [status |-> 403, message |-> "You can only access your own tasks"]
    ELSE [status |-> 200, message |-> "", task |-> WithUser(tasks[id])]

\* TasksService.getStatistics: GROUP BY status over the caller's rows
TasksStatistics(user) ==
    LET mine == {id \in DOMAIN tasks : tasks[id].userId = user.id}
        present == {tasks[id].status : id \in mine}
    IN [kind |-> "stats",
        total |-> Cardinality(mine),
        byStatus |-> [st \in present |->
                         Cardinality({id \in mine : tasks[id].status = st})]]

\* an invalidation that leaves the store alone
InvalidateNothing(store, userId) == store

\* TasksService.invalidateTasksCache: cacheManager.reset()
InvalidateTasksCache(store, userId) == EmptyCache

(***************************************************************************)
(* Tasks controller.  Every route runs JwtAuthGuard; the GET routes run    *)
(* HttpCacheInterceptor around the pipes and the handler.                  *)
(***************************************************************************)
TaskResponse(route, req, caller, ran, status, message, body, source) ==
    [route |-> route, req |-> req, caller |-> caller, ran |-> ran,
     status |-> status, message |-> message, body |-> body, source |-> source]

TaskRejected(route, req, g) ==
    TaskResponse(route, req, g.user.id, FALSE, g.status, g.message, NoBody, "none")

TaskBadUuid(route, req, g) ==
    TaskResponse(route, req, g.user.id, FALSE, 400, "Invalid UUID format", NoBody, "none")

TaskBadBody(route, req, g) ==
    TaskResponse(route, req, g.user.id, FALSE, 400, "Bad Request", NoBody, "none")

TaskThrew(route, req, g, status, message) ==
    TaskResponse(route, req, g.user.id, TRUE, status, message, NoBody, "none")

\* inputs of the tasks routes
REP  == <<"R", "e", "p">>
CALL == <<"c", "a", "l", "l">>

TaskInputs == {[title |-> REP], [title |-> CALL, status |-> DONE]}

TaskPatches == {[status |-> DONE], [title |-> CALL]}

Queries == {<<>>, << <<"page", 1>> >>, << <<"status", DONE>> >>}

TaskParams == 0..MaxTasks

Bearers == issued \cup {NoToken}

\* POST /tasks
CreateTask(tok, dto) ==
    LET route == "POST /tasks"
        req == [tok |-> tok, dto |-> dto]
        g == JwtAuthGuard(FALSE, tok)
        task == NewTask(dto, g.user.id)
    IN
    IF g.status # 200
    THEN /\ resp' = TaskRejected(route, req, g)
         /\ UNCHANGED <<users, nextUserId, tasks, nextTaskId, cache, now, issued, calls>>
    ELSE IF ~ValidationPipe(dto, {"title"})
    THEN /\ resp' = TaskBadBody(route, req, g)
         /\ UNCHANGED <<users, nextUserId, tasks, nextTaskId, cache, now, issued, calls>>
    ELSE /\ nextTaskId <= MaxTasks
         /\ tasks' = tasks @@ (task.id :> task)
         /\ nextTaskId' = nextTaskId + 1
         /\ cache' = InvalidateTasksCache(cache, g.user.id)
         /\ resp' = TaskResponse(route, req, g.user.id, TRUE, 201, "",
                                 [kind |-> "task", task |-> task], "repository")
         /\ UNCHANGED <<users, nextUserId, now, issued, calls>>

\* GET /tasks
ListTasks(tok, q) ==
    LET route == "GET /tasks"
        req == [tok |-> tok, q |-> q]
        g == JwtAuthGuard(FALSE, tok)
        cacheKey == InterceptorKey(<<"/tasks", q>>, g.user)
        found == TasksFindAll(cache, ToFilterDto(q), g.user)
    IN
    /\ IF g.status # 200
       THEN resp' = TaskRejected(route, req, g) /\ UNCHANGED cache
       ELSE IF CacheHas(cacheKey)
       THEN /\ resp' = TaskResponse(route, req, g.user.id, FALSE, 200, "",
                                    cache[cacheKey], "interceptor")
            /\ UNCHANGED cache
       ELSE /\ resp' = TaskResponse(route, req, g.user.id, TRUE, 200, "",
                                    found.result, found.source)
            /\ cache' = CachePut(found.store, cacheKey, found.result)
    /\ UNCHANGED <<users, nextUserId, tasks, nextTaskId, now, issued, calls>>

\* GET /tasks/statistics
GetStatistics(tok) ==
    LET route == "GET /tasks/statistics"
        req == [tok |-> tok]
        g == JwtAuthGuard(FALSE, tok)
        cacheKey == InterceptorKey(<<"/tasks/statistics">>, g.user)
    IN
    /\ IF g.status # 200
       THEN resp' = TaskRejected(route, req, g) /\ UNCHANGED cache
       ELSE IF CacheHas(cacheKey)
       THEN /\ resp' = TaskResponse(route, req, g.user.id, FALSE, 200, "",
                                    cache[cacheKey], "interceptor")
            /\ UNCHANGED cache
       ELSE /\ resp' = TaskResponse(route, req, g.user.id, TRUE, 200, "",
                                    TasksStatistics(g.user), "repository")
            /\ cache' = CachePut(cache, cacheKey, TasksStatistics(g.user))
    /\ UNCHANGED <<users, nextUserId, tasks, nextTaskId, now, issued, calls>>

\* GET /tasks/:id
GetTask(tok, id) ==
    LET route == "GET /tasks/:id"
        req == [tok |-> tok, id |-> id]
        g == JwtAuthGuard(FALSE, tok)
        cacheKey == InterceptorKey(<<"/tasks/", id>>, g.user)
        found == TasksFindOne(id, g.user)
    IN
    /\ IF g.status # 200
       THEN resp' = TaskRejected(route, req, g) /\ UNCHANGED cache
       ELSE IF CacheHas(cacheKey)
       THEN /\ resp' = TaskResponse(route, req, g.user.id, FALSE, 200, "",
                                    cache[cacheKey], "interceptor")
            /\ UNCHANGED cache
       ELSE IF ~IsValidUUID(id)
       THEN resp' = TaskBadUuid(route, req, g) /\ UNCHANGED cache
       ELSE IF found.status # 200
       THEN /\ resp' = TaskThrew(route, req, g, found.status, found.message)
            /\ UNCHANGED cache
       ELSE /\ resp' = TaskResponse(route, req, g.user.id, TRUE, 200, "",
                                    [kind |-> "task", task |-> found.task],
                                    "repository")
            /\ cache' = CachePut(cache, cacheKey, [kind |-> "task", task |-> found.task])
    /\ UNCHANGED <<users, nextUserId, tasks, nextTaskId, now, issued, calls>>

\* TasksController.update and TasksController.replace: the same pipes and
\* the same service call
UpdateTaskVia(route, tok, id, patch) ==
    LET req == [tok |-> tok, id |-> id, patch |-> patch]
        g == JwtAuthGuard(FALSE, tok)
        found == TasksFindOne(id, g.user)
        updatedTask == Save(ObjectAssign(found.task, patch))
    IN
    /\ IF g.status # 200
       THEN resp' = TaskRejected(route, req, g) /\ UNCHANGED <<tasks, cache>>
       ELSE IF ~IsValidUUID(id)
       THEN resp' = TaskBadUuid(route, req, g) /\ UNCHANGED <<tasks, cache>>
       ELSE IF ~ValidationPipe(patch, {})
       THEN resp' = TaskBadBody(route, req, g) /\ UNCHANGED <<tasks, cache>>
       ELSE IF found.status # 200
       THEN /\ resp' = TaskThrew(route, req, g, found.status, found.message)
            /\ UNCHANGED <<tasks, cache>>
       ELSE /\ tasks' = [tasks EXCEPT ![id] = updatedTask]
            /\ cache' = InvalidateTasksCache(cache, g.user.id)
            /\ resp' = TaskResponse(route, req, g.user.id, TRUE, 200, "",
                                    [kind |-> "task",
                                     task |-> ObjectAssign(found.task, updatedTask)],
                                    "repository")
    /\ UNCHANGED <<users, nextUserId, nextTaskId, now, issued, calls>>

\* PATCH /tasks/:id
UpdateTask(tok, id, patch) == UpdateTaskVia("PATCH /tasks/:id", tok, id, patch)

\* PUT /tasks/:id
ReplaceTask(tok, id, patch) == UpdateTaskVia("PUT /tasks/:id", tok, id, patch)

\* a remove that resets the cache whether or not findOne succeeds
RemoveTaskAlwaysInvalidating(tok, id) ==
    LET route == "DELETE /tasks/:id"
        req == [tok |-> tok, id |-> id]
        g == JwtAuthGuard(FALSE, tok)
        found == TasksFindOne(id, g.user)
    IN
    /\ IF g.status # 200
       THEN resp' = TaskRejected(route, req, g) /\ UNCHANGED <<tasks, cache>>
       ELSE IF ~IsValidUUID(id)
       THEN resp' = TaskBadUuid(route, req, g) /\ UNCHANGED <<tasks, cache>>
       ELSE IF found.status # 200
       THEN /\ resp' = TaskThrew(route, req, g, found.status, found.message)
            /\ cache' = InvalidateTasksCache(cache, g.user.id)
            /\ UNCHANGED tasks
       ELSE /\ tasks' = Without(tasks, id)
            /\ cache' = InvalidateTasksCache(cache, g.user.id)
            /\ resp' = TaskResponse(route, req, g.user.id, TRUE, 204, "",
                                    NoBody, "repository")
    /\ UNCHANGED <<users, nextUserId, nextTaskId, now, issued, calls>>

\* DELETE /tasks/:id
RemoveTask(tok, id) ==
    LET route == "DELETE /tasks/:id"
        req == [tok |-> tok, id |-> id]
        g == JwtAuthGuard(FALSE, tok)
        found == TasksFindOne(id, g.user)
    IN
    /\ IF g.status # 200
       THEN resp' = TaskRejected(route, req, g) /\ UNCHANGED <<tasks, cache>>
       ELSE IF ~IsValidUUID(id)
       THEN resp' = TaskBadUuid(route, req, g) /\ UNCHANGED <<tasks, cache>>
       ELSE IF found.status # 200
       THEN /\ resp' = TaskThrew(route, req, g, found.status, found.message)
            /\ UNCHANGED <<tasks, cache>>
       ELSE /\ tasks' = Without(tasks, id)
            /\ cache' = InvalidateTasksCache(cache, g.user.id)
            /\ resp' = TaskResponse(route, req, g.user.id, TRUE, 204, "",
                                    NoBody, "repository")
    /\ UNCHANGED <<users, nextUserId, nextTaskId, now, issued, calls>>

\* the store drops its entries when their TTL (redis.ttl) has run out; the
\* entries of one burst of requests age together and are dropped together
CacheExpire ==
    /\ cache # EmptyCache
    /\ cache' = EmptyCache
    /\ resp' = Idle
    /\ UNCHANGED <<users, nextUserId, tasks, nextTaskId, now, issued, calls>>

(***************************************************************************)
(* The task part of the API, on a database that holds the administrator    *)
(* and two registered users, each holding a fresh token.                   *)
(***************************************************************************)
Member(id, email) ==
    [id |-> id, email |-> email, password |-> BcryptHash("Passw0rd"),
     firstName |-> "Al", lastName |-> "Doe", role |-> USER, isActive |-> TRUE]

InitTasks ==
    /\ users = (1 :> SeedAdmin) @@ (2 :> Member(2, "b@x")) @@ (3 :> Member(3, "a@x"))
    /\ nextUserId = 4
    /\ tasks = EmptyTable
    /\ nextTaskId = 1
    /\ cache = EmptyCache
    /\ now = 0
    /\ issued = {[kind |-> "jwt", sub |-> id, email |-> users[id].email,
                  iat |-> 0, exp |-> ExpiresIn, sig |-> JwtSecret] : id \in 1..3}
    /\ resp = Idle
    /\ calls = <<>>

NextTasks ==
    \/ \E tok \in Bearers, dto \in TaskInputs : CreateTask(tok, dto)
    \/ \E tok \in Bearers, q \in Queries : ListTasks(tok, q)
    \/ \E tok \in Bearers, id \in TaskParams : GetTask(tok, id)
    \/ \E tok \in Bearers, id \in TaskParams, patch \in TaskPatches :
          UpdateTask(tok, id, patch)
    \/ \E tok \in Bearers, id \in TaskParams : RemoveTask(tok, id)
    \/ CacheExpire

SpecTasks == InitTasks /\ [][NextTasks]_vars

(***************************************************************************)
(* The list query: the first GET /tasks after a start with an empty cache, *)
(* by user 2 or user 3, on a tasks table drawn from two families: tables   *)
(* of up to MaxRows rows of user 2 for the paging, and tables of two rows  *)
(* that differ in owner, status, priority and text for the filters.        *)
(***************************************************************************)
MaxRows == 25
MaxPage == 4

A_REP == <<"a", "R", "E", "P">>

Row(id, userId, status, priority, title, description) ==
    [id |-> id, title |-> title, description |-> description, status |-> status,
     priority |-> priority, userId |-> userId, createdAt |-> id, updatedAt |-> 0]

PagingTables ==
    {[id \in 1..n |-> Row(id, 2, TODO, MEDIUM, REP, NullText)] : n \in 0..MaxRows}

RowTexts == {<<REP, NullText>>, <<CALL, NullText>>, <<CALL, A_REP>>}

FilterRows(id) ==
    {Row(id, userId, status, priority, text[1], text[2]) :
        userId \in {2, 3}, status \in {TODO, DONE}, priority \in {MEDIUM, HIGH},
        text \in RowTexts}

FilterTables == {(1 :> r1) @@ (2 :> r2) : r1 \in FilterRows(1), r2 \in FilterRows(2)}

PagingQueries ==
    {<< <<"page", page>>, <<"limit", limit>> >> : page \in 1..MaxPage, limit \in {1, 2, 10}}

Optional(name, values) == {<<>>} \cup {<< <<name, v>> >> : v \in values}

FilterQueries ==
    {status \o priority \o search :
        status \in Optional("status", {DONE}),
        priority \in Optional("priority", {HIGH}),
        search \in Optional("search", {<<"r", "E", "p">>, <<"_">>})}

InitList ==
    /\ users = (1 :> SeedAdmin) @@ (2 :> Member(2, "b@x")) @@ (3 :> Member(3, "a@x"))
    /\ nextUserId = 4
    /\ tasks \in PagingTables \cup FilterTables
    /\ nextTaskId = MaxRows + 1
    /\ cache = EmptyCache
    /\ now = 0
    /\ issued = {[kind |-> "jwt", sub |-> id, email |-> users[id].email,
                  iat |-> 0, exp |-> ExpiresIn, sig |-> JwtSecret] : id \in 2..3}
    /\ resp = Idle
    /\ calls = <<>>

NextList ==
    /\ resp = Idle
    /\ \E tok \in issued, q \in PagingQueries \cup FilterQueries : ListTasks(tok, q)

SpecList == InitList /\ [][NextList]_vars

(***************************************************************************)
(* Failures.  An exception thrown while a request is handled (by a guard,  *)
(* a pipe, a handler, a service or the database driver) is turned into the *)
(* response by the exception filters bound to the route; bootstrap binds   *)
(* no global filter and no controller binds one, so Nest's built-in        *)
(* handler answers.                                                        *)
(***************************************************************************)
HttpStatuses == {400, 401, 403, 404, 409}

\* what can be thrown: an HttpException, another Error, a value that is
\* not an Error
Thrown ==
    {[kind |-> "HttpException", status |-> st, message |-> "Access denied"] :
        st \in HttpStatuses}
    \cup {[kind |-> "Error", status |-> 0, message |-> m] :
            m \in {"connect ECONNREFUSED 10.0.0.5:5432",
                   "duplicate key value violates unique constraint"}}
    \cup {[kind |-> "value", status |-> 0, message |-> ""]}

Requests ==
    [method : {"GET", "POST", "PATCH", "DELETE"},
     url : {"/api/v1/tasks", "/api/v1/tasks/1", "/api/v1/users/me", "/api/v1/auth/login"}]

\* HttpException.getResponse() of an exception built from a message
GetResponse(exception) ==
    [statusCode |-> exception.status, message |-> exception.message,
     error |-> "Error"]

\* AllExceptionsFilter.catch
AllExceptionsFilter(exception, request) ==
    [kind |-> "error",
     statusCode |-> IF exception.kind = "HttpException" THEN exception.status ELSE 500,
     timestamp |-> now,
     path |-> request.url,
     method |-> request.method,
     message |-> IF exception.kind = "HttpException" THEN GetResponse(exception)
                 ELSE IF exception.kind = "Error"
                      THEN [text |-> exception.message]
                 ELSE [text |-> "Internal server error"]]

\* the built-in handler: the exception's own response for an HttpException,
\* a fixed body for anything else
BaseExceptionFilter(exception, request) ==
    IF exception.kind = "HttpException"
    THEN [kind |-> "error", statusCode |-> exception.status,
          message |-> [text |-> exception.message], error |-> "Error"]
    ELSE [kind |-> "error", statusCode |-> 500,
          message |-> [text |-> "Internal server error"]]

\* the filters bootstrap registers with app.useGlobalFilters
GlobalFilters == {}

ExceptionsZone(exception, request) ==
    IF "AllExceptionsFilter" \in GlobalFilters
    THEN AllExceptionsFilter(exception, request)
    ELSE BaseExceptionFilter(exception, request)

\* a request ends with an exception
Fails(exception, request) ==
    LET body == ExceptionsZone(exception, request) IN
    /\ resp' = Response("error",
                        [method |-> request.method, url |-> request.url,
                         exception |-> exception],
                        0, FALSE, body.statusCode, "", body)
    /\ UNCHANGED <<users, nextUserId, tasks, nextTaskId, cache, now, issued, calls>>

NextErrors == \E exception \in Thrown, request \in Requests : Fails(exception, request)

SpecErrors == InitAuth /\ [][NextErrors]_vars

(***************************************************************************)
(* Tasks and their owners: the writes of the tasks routes together with    *)
(* login, soft delete, reactivation and permanent delete of users, on a    *)
(* database that holds the three users and one task of user 2.             *)
(***************************************************************************)
StoredTaskId == MaxTasks + 1

StoredTask ==
    [id |-> StoredTaskId, title |-> REP, description |-> NullText, status |-> TODO,
     priority |-> MEDIUM, userId |-> 2, createdAt |-> 0, updatedAt |-> 0]

NoPatch == [f \in {} |-> ""]

OwnerTaskInputs == {[title |-> REP], [title |-> CALL, userId |-> 1]}

OwnerTaskPatches ==
    {NoPatch, [status |-> DONE], [title |-> CALL, priority |-> HIGH], [userId |-> 1]}

OwnerReplacements == {NoPatch, [title |-> CALL, priority |-> HIGH]}

OwnerTaskParams == 1..StoredTaskId

OwnerLogins == [email : {"b@x"}, password : Passwords]

\* the user routes are called for user 2, the owner of the stored task
OwnerUserParams == {2}

InitOwners ==
    /\ users = (1 :> SeedAdmin) @@ (2 :> Member(2, "b@x")) @@ (3 :> Member(3, "a@x"))
    /\ nextUserId = 4
    /\ tasks = (StoredTaskId :> StoredTask)
    /\ nextTaskId = 1
    /\ cache = EmptyCache
    /\ now = 0
    /\ issued = {[kind |-> "jwt", sub |-> id, email |-> users[id].email,
                  iat |-> 0, exp |-> ExpiresIn, sig |-> JwtSecret] : id \in 1..3}
    /\ resp = Idle
    /\ calls = <<>>

NextOwners ==
    \/ \E tok \in issued, dto \in OwnerTaskInputs : CreateTask(tok, dto)
    \/ \E tok \in issued, id \in OwnerTaskParams, patch \in OwnerTaskPatches :
          UpdateTask(tok, id, patch)
    \/ \E tok \in issued, id \in OwnerTaskParams, patch \in OwnerReplacements :
          ReplaceTask(tok, id, patch)
    \/ \E tok \in issued, id \in OwnerTaskParams : RemoveTask(tok, id)
    \/ \E dto \in OwnerLogins : Login(dto)
    \/ \E tok \in issued : GetProfile(tok)
    \/ \E tok \in issued, id \in OwnerUserParams :
          UpdateUser(tok, id, [isActive |-> TRUE])
    \/ \E tok \in issued, id \in OwnerUserParams : RemoveUser(tok, id)
    \/ \E tok \in issued, id \in OwnerUserParams : HardDeleteUser(tok, id)

SpecOwners == InitOwners /\ [][NextOwners]_vars

(***************************************************************************)
(* Statistics: GET /tasks/statistics between task writes, by the three     *)
(* users, on the database that holds one task of user 2.                   *)
(***************************************************************************)
NextStats ==
    \/ \E tok \in issued : GetStatistics(tok)
    \/ \E tok \in issued, dto \in TaskInputs : CreateTask(tok, dto)
    \/ \E tok \in issued, id \in OwnerTaskParams, patch \in TaskPatches :
          UpdateTask(tok, id, patch)
    \/ \E tok \in issued, id \in OwnerTaskParams : RemoveTask(tok, id)
    \/ CacheExpire

SpecStats == InitOwners /\ [][NextStats]_vars

(***************************************************************************)
(* Path parameters: the :id routes of both controllers, called with a      *)
(* string that is no uuid (0) and with the id of a stored row, with and     *)
(* without a token.                                                        *)
(***************************************************************************)
TaskIdParams == {0, StoredTaskId}

UserIdParams == {0, 2}

NextParams ==
    \/ \E tok \in Bearers, id \in TaskIdParams : GetTask(tok, id)
    \/ \E tok \in Bearers, id \in TaskIdParams : UpdateTask(tok, id, [status |-> DONE])
    \/ \E tok \in Bearers, id \in TaskIdParams : ReplaceTask(tok, id, [title |-> CALL])
    \/ \E tok \in Bearers, id \in TaskIdParams : RemoveTask(tok, id)
    \/ \E tok \in Bearers, id \in UserIdParams : GetUser(tok, id)
    \/ \E tok \in Bearers, id \in UserIdParams : UpdateUser(tok, id, [isActive |-> FALSE])
    \/ \E tok \in Bearers, id \in UserIdParams : RemoveUser(tok, id)
    \/ \E tok \in Bearers, id \in UserIdParams : HardDeleteUser(tok, id)

SpecParams == InitOwners /\ [][NextParams]_vars

(***************************************************************************)
(* Overlapping requests.  An async method runs without interruption from   *)
(* one await to the next; while it waits, other requests run.  A call      *)
(* that waits is kept in `calls` with what it holds in its local           *)
(* variables; a later step resumes it.  The steps below cut findAll        *)
(* between its query and its cacheManager.set, and update between its      *)
(* findOne and its save; the requests of the actions above run between      *)
(* them from start to end.                                                 *)
(***************************************************************************)
MaxCalls == 2
MaxUpdates == 2

Suspend(call) == Append(calls, call)

Resume(i) == [j \in 1..(Len(calls) - 1) |-> IF j < i THEN calls[j] ELSE calls[j + 1]]

\* GET /tasks up to the result of getManyAndCount: the guard, the lookups
\* of the interceptor and of findAll, which both miss, and the query
FindAllQuery(tok, q) ==
    LET g == JwtAuthGuard(FALSE, tok)
        filterDto == ToFilterDto(q)
    IN
    /\ Len(calls) < MaxCalls
    /\ g.status = 200
    /\ ~CacheHas(InterceptorKey(<<"/tasks", q>>, g.user))
    /\ ~CacheHas(ListKey(filterDto, g.user))
    /\ calls' = Suspend([op |-> "findAll", tok |-> tok, q |-> q, user |-> g.user,
                         result |-> ListResult(filterDto, g.user)])
    /\ resp' = Idle
    /\ UNCHANGED <<users, nextUserId, tasks, nextTaskId, cache, now, issued>>

\* GET /tasks from the result of the query on: cacheManager.set in findAll,
\* the set of the interceptor, the response
FindAllSet(i) ==
    LET call == calls[i]
        stored == CachePut(cache, ListKey(ToFilterDto(call.q), call.user), call.result)
    IN
    /\ call.op = "findAll"
    /\ cache' = CachePut(stored, InterceptorKey(<<"/tasks", call.q>>, call.user),
                         call.result)
    /\ calls' = Resume(i)
    /\ resp' = TaskResponse("GET /tasks", [tok |-> call.tok, q |-> call.q],
                            call.user.id, TRUE, 200, "", call.result, "repository")
    /\ UNCHANGED <<users, nextUserId, tasks, nextTaskId, now, issued>>

\* PATCH /tasks/:id up to the call of save: the guard, the pipes, findOne
\* and Object.assign on the loaded task
UpdateFindOne(tok, id, patch) ==
    LET g == JwtAuthGuard(FALSE, tok)
        found == TasksFindOne(id, g.user)
    IN
    /\ Len(calls) < MaxCalls
    /\ g.status = 200
    /\ IsValidUUID(id)
    /\ ValidationPipe(patch, {})
    /\ found.status = 200
    /\ found.task.updatedAt < MaxUpdates
    /\ calls' = Suspend([op |-> "update", tok |-> tok, id |-> id, patch |-> patch,
                         user |-> g.user, task |-> ObjectAssign(found.task, patch)])
    /\ resp' = Idle
    /\ UNCHANGED <<users, nextUserId, tasks, nextTaskId, cache, now, issued>>

\* taskRepository.save of a task loaded earlier: save looks the row up by
\* its primary key, updates it when it is stored and inserts it when not
RepositorySave(task) ==
    IF task.id \in DOMAIN tasks
    THEN [tasks EXCEPT ![task.id] = Save(task)]
    ELSE tasks @@ (task.id :> Columns(task))

\* PATCH /tasks/:id from save on: save, invalidateTasksCache, the response
UpdateSave(i) ==
    LET call == calls[i]
        tasksAfter == RepositorySave(call.task)
    IN
    /\ call.op = "update"
    /\ tasks' = tasksAfter
    /\ cache' = InvalidateTasksCache(cache, call.user.id)
    /\ calls' = Resume(i)
    /\ resp' = TaskResponse("PATCH /tasks/:id",
                            [tok |-> call.tok, id |-> call.id, patch |-> call.patch],
                            call.user.id, TRUE, 200, "",
                            [kind |-> "task",
                             task |-> ObjectAssign(call.task, tasksAfter[call.id])],
                            "repository")
    /\ UNCHANGED <<users, nextUserId, nextTaskId, now, issued>>

\* the requests of user 2, the owner of the stored task
OwnerBearers == {tok \in issued : tok.sub = 2}

\* list calls cut in two, among list calls and writes that are not
NextListRace ==
    \/ \E tok \in OwnerBearers, q \in Queries : FindAllQuery(tok, q)
    \/ \E i \in 1..Len(calls) : FindAllSet(i)
    \/ \E tok \in OwnerBearers, q \in Queries : ListTasks(tok, q)
    \/ \E tok \in OwnerBearers, patch \in TaskPatches :
          UpdateTask(tok, StoredTaskId, patch)
    \/ \E tok \in OwnerBearers : RemoveTask(tok, StoredTaskId)

SpecListRace == InitOwners /\ [][NextListRace]_vars

\* updates cut in two, among gets and removes that are not
NextUpdateRace ==
    \/ \E tok \in OwnerBearers, patch \in TaskPatches :
          UpdateFindOne(tok, StoredTaskId, patch)
    \/ \E i \in 1..Len(calls) : UpdateSave(i)
    \/ \E tok \in OwnerBearers : GetTask(tok, StoredTaskId)
    \/ \E tok \in OwnerBearers : RemoveTask(tok, StoredTaskId)

SpecUpdateRace == InitOwners /\ [][NextUpdateRace]_vars

(***************************************************************************)
(* Overlapping registrations: register cut between its findByEmail and     *)
(* its create, among registrations that are not.                           *)
(***************************************************************************)
\* POST /auth/register up to the call of create: findByEmail finds no user
RegisterFindByEmail(dto) ==
    /\ Len(calls) < MaxCalls
    /\ FindByEmail(dto.email) = {}
    /\ calls' = Suspend([op |-> "register", dto |-> dto])
    /\ resp' = Idle
    /\ UNCHANGED <<users, nextUserId, tasks, nextTaskId, cache, now, issued>>

\* the INSERT of a user whose email is stored: User.email is unique, the
\* driver's error is no HttpException
UniqueViolation ==
    ExceptionsZone([kind |-> "Error", status |-> 0,
                    message |-> "duplicate key value violates unique constraint"],
                   [method |-> "POST", url |-> "/api/v1/auth/register"])

\* POST /auth/register from create on: the INSERT, the token, the response
RegisterCreate(i) ==
    LET route == "POST /auth/register"
        dto == calls[i].dto
        user == NewUser([dto EXCEPT !.password = BcryptHash(dto.password)])
        token == GenerateToken(user.id, user.email)
    IN
    /\ calls[i].op = "register"
    /\ calls' = Resume(i)
    /\ IF FindByEmail(dto.email) # {}
       THEN /\ resp' = Response(route, dto, 0, TRUE, UniqueViolation.statusCode,
                                UniqueViolation.message.text, NoBody)
            /\ UNCHANGED <<users, nextUserId, issued>>
       ELSE /\ nextUserId <= MaxUsers
            /\ Cardinality(issued \cup {token}) <= MaxTokens
            /\ users' = users @@ (user.id :> user)
            /\ nextUserId' = nextUserId + 1
            /\ issued' = issued \cup {token}
            /\ resp' = Response(route, dto, 0, TRUE, 201, "",
                                [kind |-> "auth", user |-> UserView(user),
                                 access_token |-> token])
    /\ UNCHANGED <<tasks, nextTaskId, cache, now>>

NewcomerInputs ==
    {[email |-> e, password |-> pw, firstName |-> "Al", lastName |-> "Doe"] :
        e \in {"Root@x", "new@x"}, pw \in Passwords}

NextRegisterRace ==
    \/ \E dto \in NewcomerInputs : RegisterFindByEmail(dto)
    \/ \E i \in 1..Len(calls) : RegisterCreate(i)
    \/ \E dto \in NewcomerInputs : Register(dto)

SpecRegisterRace == InitAuth /\ [][NextRegisterRace]_vars

(***************************************************************************)
(* Sessions: user 2 registered, got a token and was then deactivated by    *)
(* the admin; the admin and user 2 present their tokens while the admin    *)
(* switches user 2 on and off and the tokens run out.                      *)
(***************************************************************************)
InitSessions ==
    /\ users = (1 :> SeedAdmin) @@ (2 :> [Member(2, "b@x") EXCEPT !.isActive = FALSE])
    /\ nextUserId = 3
    /\ tasks = EmptyTable
    /\ nextTaskId = 1
    /\ cache = EmptyCache
    /\ now = 0
    /\ issued = {[kind |-> "jwt", sub |-> id, email |-> users[id].email,
                  iat |-> 0, exp |-> ExpiresIn, sig |-> JwtSecret] : id \in 1..2}
    /\ resp = Idle
    /\ calls = <<>>

NextSessions ==
    \/ \E tok \in Presentable : GetProfile(tok)
    \/ \E tok \in Presentable : GetUsers(tok)
    \/ \E tok \in Presentable, active \in BOOLEAN :
          UpdateUser(tok, 2, [isActive |-> active])
    \/ \E tok \in Presentable : RemoveUser(tok, 2)
    \/ \E dto \in OwnerLogins : Login(dto)
    \/ Tick

SpecSessions == InitSessions /\ [][NextSessions]_vars

(***************************************************************************)
(*                    Claims about authentication and users                *)
(***************************************************************************)
REGISTER == "POST /auth/register"
LOGIN    == "POST /auth/login"

PublicRoutes == {REGISTER, LOGIN}

AdminRoutes == {"GET /users", "DELETE /users/:id", "DELETE /users/:id/permanent"}

UserRoutes == AdminRoutes \cup {"GET /users/me", "GET /users/:id", "PATCH /users/:id"}

StoredEmails == {users[id].email : id \in DOMAIN users}

\* C5: a register step succeeds (201, a new row with that email, a token
\* for the new row) when no stored user has exactly the email sent, and
\* fails with 409 Conflict, storing nothing and issuing no token, when one has.
C5_RegisterConflict ==
    [][resp'.route = REGISTER =>
        IF resp'.req.email \notin StoredEmails
        THEN /\ resp'.status = 201
             /\ DOMAIN users' = DOMAIN users \cup {nextUserId}
             /\ users'[nextUserId].email = resp'.req.email
             /\ resp'.body.user.id = nextUserId
             /\ resp'.body.access_token \in issued'
        ELSE /\ resp'.status = 409
             /\ users' = users
             /\ issued' = issued
             /\ resp'.body = NoBody]_vars

\* the second of two registrations with one email: the row made by the
\* first is stored and the second got 409
C5_Witness ==
    /\ resp.route = REGISTER
    /\ resp.status = 409
    /\ \E id \in DOMAIN users : id >= 2 /\ users[id].email = resp.req.email

\* C6: a login step for an unknown email or a wrong password fails with 401
\* and the message "Invalid credentials"; for an inactive user it fails with
\* 401, and with "Account is deactivated" when the password is the right
\* one; no failed login issues a token.
C6_LoginFailures ==
    [][resp'.route = LOGIN =>
        LET dto == resp'.req
            match == {id \in DOMAIN users : users[id].email = dto.email}
            rightPassword(id) == users[id].password = BcryptHash(dto.password)
            refused == /\ resp'.status = 401
                       /\ resp'.body = NoBody
                       /\ issued' = issued
        IN
        /\ match = {} => refused /\ resp'.message = "Invalid credentials"
        /\ \A id \in match :
            /\ ~users[id].isActive => refused
            /\ ~users[id].isActive /\ rightPassword(id)
                  => resp'.message = "Account is deactivated"
            /\ users[id].isActive /\ ~rightPassword(id)
                  => refused /\ resp'.message = "Invalid credentials"]_vars

\* a login with the right password for a deactivated account
C6_Witness ==
    /\ resp.route = LOGIN
    /\ resp.status = 401
    /\ resp.message = "Account is deactivated"
    /\ \E id \in DOMAIN users :
          /\ users[id].email = resp.req.email
          /\ users[id].password = BcryptHash(resp.req.password)
          /\ ~users[id].isActive

\* C7: a token handed out by register or login names the user it was made
\* for; presented on a guarded route before its expiry while that user
\* exists and is active, it attaches exactly that user; presented at or
\* after its expiry it is rejected with 401 and the handler does not run.
C7_TokenResolves ==
    [][/\ resp'.route \in PublicRoutes /\ resp'.body.kind = "auth" =>
            /\ resp'.body.access_token.sub = resp'.body.user.id
            /\ resp'.body.user.email = resp'.req.email
            /\ resp'.body.access_token.exp = now + ExpiresIn
       /\ resp'.route \in UserRoutes /\ resp'.req.tok \in issued =>
            LET tok == resp'.req.tok IN
            /\ now < tok.exp /\ tok.sub \in DOMAIN users /\ users[tok.sub].isActive
                  => resp'.caller = tok.sub /\ resp'.status # 401
            /\ now >= tok.exp
                  => resp'.status = 401 /\ resp'.caller = 0 /\ ~resp'.ran]_vars

\* a registered user's token used on a later request
C7_Witness ==
    /\ resp.route = "GET /users/me"
    /\ resp.req.tok \in issued
    /\ resp.req.tok.sub >= 2
    /\ resp.status = 200
    /\ resp.caller = resp.req.tok.sub
    /\ resp.body.user.id = resp.req.tok.sub

\* C8: on a guarded route the handler runs only for a well-formed token
\* signed with the secret and not expired; without a token, or with a
\* malformed, badly signed or expired one, the request ends with 401 and
\* the handler does not run.  The guard accepts a public route whatever the
\* request carries, and the public routes always reach their handler.
C8_GuardedRoutes ==
    /\ resp.route \in UserRoutes =>
          LET tok == resp.req.tok
              verifies == tok.kind = "jwt" /\ tok.sig = JwtSecret /\ now < tok.exp
          IN
          /\ resp.ran => verifies
          /\ ~verifies => resp.status = 401 /\ ~resp.ran /\ resp.caller = 0
    /\ resp.route \in PublicRoutes => resp.ran
    /\ \A tok \in Presentable : JwtAuthGuard(TRUE, tok).status = 200

\* a badly signed token for an existing user
C8_Witness ==
    /\ resp.route = "GET /users/me"
    /\ resp.req.tok.kind = "jwt"
    /\ resp.req.tok.sig # JwtSecret
    /\ resp.req.tok.sub \in DOMAIN users
    /\ resp.status = 401
    /\ ~resp.ran

\* C9: the roles guard lets a request through when the route requires no
\* roles, and otherwise answers 403 unless a user is attached and its role
\* is one of the required ones; the handler of an admin-only route runs
\* only for a caller who is, when the request arrives, a stored active
\* admin presenting a token that verifies.
C9_RolesGuard ==
    [][/\ \A roles \in SUBSET UserRole : \A user \in Range(users) \cup {NoUser} :
            RolesGuard(roles, user).status =
                IF roles = {} THEN 200
                ELSE IF user.id = 0 THEN 403
                ELSE IF user.role \in roles THEN 200 ELSE 403
       /\ resp'.route \in AdminRoutes /\ resp'.ran =>
            /\ resp'.caller \in DOMAIN users
            /\ users[resp'.caller].role = ADMIN
            /\ users[resp'.caller].isActive
            /\ resp'.req.tok \in issued
            /\ resp'.req.tok.sub = resp'.caller
            /\ now < resp'.req.tok.exp
       /\ /\ resp'.route \in AdminRoutes
          /\ resp'.caller \in DOMAIN users
          /\ users[resp'.caller].role # ADMIN
          => resp'.status = 403 /\ ~resp'.ran /\ users' = users]_vars

\* an authenticated non-admin asks for a soft delete
C9_Witness ==
    /\ resp.route = "DELETE /users/:id"
    /\ resp.caller \in DOMAIN users
    /\ users[resp.caller].role = USER
    /\ users[resp.caller].isActive
    /\ resp.status = 403
    /\ ~resp.ran

LIST     == "GET /tasks"
GET_TASK == "GET /tasks/:id"

TaskWrites == {"POST /tasks", "PATCH /tasks/:id", "DELETE /tasks/:id"}

WriteDone(r) == r.route \in TaskWrites /\ r.status \in {200, 201, 204}

\* the rows a listing for `caller` with criteria `dto` has to show
OwnRows(table, caller, dto) ==
    {table[id] : id \in {x \in DOMAIN table :
        /\ table[x].userId = caller
        /\ dto.status # "" => table[x].status = dto.status}}

\* C1: a GET /tasks/:id by an authenticated caller for a stored task of
\* another user ends with 403 and no task when the caller is not an admin,
\* and returns that task when the caller is an admin.
C1_NonOwnerForbidden ==
    /\ resp.route = GET_TASK
    /\ resp.caller \in DOMAIN users
    /\ resp.req.id \in DOMAIN tasks
    /\ tasks[resp.req.id].userId # resp.caller
    => IF users[resp.caller].role = ADMIN
       THEN resp.status = 200 /\ resp.body.task.id = resp.req.id
       ELSE resp.status = 403 /\ resp.body = NoBody

\* C2: every task in a GET /tasks response is owned by the caller.
C2_ListOnlyOwn ==
    resp.route = LIST /\ resp.status = 200 =>
        \A i \in 1..Len(resp.body.data) : resp.body.data[i].userId = resp.caller

\* C3: a completed create, update or remove leaves the cache without any
\* entry, and a list call that comes next is answered by a repository
\* query whose rows are the caller's matching rows as stored after the write.
C3_WriteInvalidates ==
    [][/\ WriteDone(resp') => cache' = EmptyCache
       /\ WriteDone(resp) /\ resp'.route = LIST /\ resp'.status = 200 =>
            LET rows == OwnRows(tasks, resp'.caller, ToFilterDto(resp'.req.q)) IN
            /\ resp'.ran
            /\ resp'.source = "repository"
            /\ {resp'.body.data[i] : i \in 1..Len(resp'.body.data)} = rows
            /\ Len(resp'.body.data) = Cardinality(rows)
            /\ resp'.body.meta.total = Cardinality(rows)]_vars

\* a listing recomputed after an update shows the updated row
C3_Witness ==
    /\ resp.route = LIST
    /\ resp.status = 200
    /\ resp.source = "repository"
    /\ cache # EmptyCache
    /\ Len(resp.body.data) = 1
    /\ resp.body.data[1].title = REP
    /\ resp.body.data[1].status = DONE

\* C4: of two successive calls of the list operation by one owner with
\* equal criteria, the second returns the payload of the first and takes
\* it from the cache, not from the repository; the entry a list call
\* leaves under its key is its payload, and no request other than a
\* completed task write, and no step other than an expiry, drops or
\* changes an entry.
C4_RepeatIsCached ==
    [][/\ /\ resp.route = LIST /\ resp.ran /\ resp.status = 200
          /\ resp'.route = LIST /\ resp'.ran /\ resp'.status = 200
          /\ resp'.caller = resp.caller
          /\ ToFilterDto(resp'.req.q) = ToFilterDto(resp.req.q)
          => resp'.body = resp.body /\ resp'.source = "service"
       /\ resp'.route = LIST /\ resp'.ran /\ resp'.status = 200 =>
            LET key == <<"tasks:", resp'.caller, JsonStringify(ToFilterDto(resp'.req.q))>>
            IN key \in DOMAIN cache' /\ cache'[key] = resp'.body
       /\ ~WriteDone(resp') /\ resp' # Idle =>
            \A key \in DOMAIN cache : key \in DOMAIN cache' /\ cache'[key] = cache[key]]_vars

\* the second of two list calls with equal criteria, sent with another
\* query string, taken from the list cache
C4_Witness ==
    /\ resp.route = LIST
    /\ resp.ran
    /\ resp.source = "service"
    /\ Len(resp.body.data) = 1
    /\ resp.body.data[1].userId = resp.caller

(***************************************************************************)
(*                   Claims about tasks and their owners                   *)
(***************************************************************************)
PATCH_TASK  == "PATCH /tasks/:id"
PUT_TASK    == "PUT /tasks/:id"
DELETE_TASK == "DELETE /tasks/:id"
SOFT_DELETE == "DELETE /users/:id"
HARD_DELETE == "DELETE /users/:id/permanent"

TaskColumns ==
    {"id", "title", "description", "status", "priority", "userId", "createdAt",
     "updatedAt"}

\* the stored task `id` is changed or deleted by the step
Touched(id) == id \notin DOMAIN tasks' \/ tasks'[id] # tasks[id]

\* the step answers an update or remove of task `id` sent by its owner or
\* by an admin
ByOwnerOrAdmin(id) ==
    /\ resp'.route \in {PATCH_TASK, PUT_TASK, DELETE_TASK}
    /\ resp'.req.id = id
    /\ resp'.caller \in DOMAIN users
    /\ \/ resp'.caller = tasks[id].userId
       \/ users[resp'.caller].role = ADMIN

\* an update or remove of a stored task by a caller who is neither its
\* owner nor an admin is answered 403 and changes no task
OthersForbidden ==
    /\ resp'.route \in {PATCH_TASK, PUT_TASK, DELETE_TASK}
    /\ resp'.caller \in DOMAIN users
    /\ resp'.req.id \in DOMAIN tasks
    /\ resp'.status # 400
    /\ tasks[resp'.req.id].userId # resp'.caller
    /\ users[resp'.caller].role # ADMIN
    => resp'.status = 403 /\ tasks' = tasks

\* C11 as stated: a stored task changes or disappears only in a step that
\* answers an update or remove of it by its owner or an admin, and such a
\* request by anyone else is answered 403.
C11_OnlyTaskWrites ==
    [][/\ \A id \in DOMAIN tasks : Touched(id) => ByOwnerOrAdmin(id)
       /\ OthersForbidden]_vars

\* C11: a stored task changes or disappears only in a step that answers
\* an update or remove of it by its owner or an admin, or an admin's
\* permanent delete of its owner, which deletes it; an update or remove by
\* any other caller is answered 403 and changes nothing.
C11_OnlyOwnerOrAdmin ==
    [][/\ \A id \in DOMAIN tasks : Touched(id) =>
            \/ ByOwnerOrAdmin(id)
            \/ /\ resp'.route = HARD_DELETE
               /\ resp'.status = 204
               /\ resp'.req.id = tasks[id].userId
               /\ resp'.caller \in DOMAIN users
               /\ users[resp'.caller].role = ADMIN
               /\ id \notin DOMAIN tasks'
       /\ OthersForbidden]_vars

\* user 3 asks to remove the stored task of user 2
C11_Witness ==
    /\ resp.route = DELETE_TASK
    /\ resp.caller = 3
    /\ resp.req.id = StoredTaskId
    /\ resp.status = 403
    /\ StoredTaskId \in DOMAIN tasks
    /\ tasks[StoredTaskId].userId = 2

\* C12: the owner id of every stored task is the id of a stored user.
C12_OwnerExists == \A id \in DOMAIN tasks : tasks[id].userId \in DOMAIN users

\* user 2 has been deleted for good with its tasks, a task of another user
\* is still stored
C12_Witness ==
    /\ resp.route = HARD_DELETE
    /\ resp.status = 204
    /\ 2 \notin DOMAIN users
    /\ StoredTaskId \notin DOMAIN tasks
    /\ tasks # EmptyTable

\* C13: a soft delete that succeeds was sent by an admin, sets isActive to
\* FALSE on the target and leaves every other column, every other user and
\* every task as it was; sent by an authenticated non-admin it is answered
\* 403 and changes nothing.  While a stored user is inactive, a login with
\* its email is answered 401 without a token, and a request carrying a
\* token issued to it is answered 401 before the handler, changing nothing.
C13_SoftDelete ==
    [][/\ resp'.route = SOFT_DELETE /\ resp'.status = 204 =>
            /\ resp'.caller \in DOMAIN users
            /\ users[resp'.caller].role = ADMIN
            /\ resp'.req.id \in DOMAIN users
            /\ users' = [users EXCEPT ![resp'.req.id].isActive = FALSE]
            /\ tasks' = tasks
       /\ /\ resp'.route = SOFT_DELETE
          /\ resp'.caller \in DOMAIN users
          /\ users[resp'.caller].role # ADMIN
          => resp'.status = 403 /\ users' = users /\ tasks' = tasks
       /\ \A id \in DOMAIN users : ~users[id].isActive =>
            /\ resp'.route = LOGIN /\ resp'.req.email = users[id].email =>
                  resp'.status = 401 /\ issued' = issued
            /\ /\ resp' # Idle
               /\ "tok" \in DOMAIN resp'.req
               /\ resp'.req.tok \in issued
               /\ resp'.req.tok.sub = id
               => /\ resp'.status = 401
                  /\ ~resp'.ran
                  /\ resp'.caller = 0
                  /\ users' = users /\ tasks' = tasks]_vars

\* the soft-deleted user 2, its task still stored, logs in with the right
\* password
C13_Witness ==
    /\ 2 \in DOMAIN users
    /\ ~users[2].isActive
    /\ StoredTaskId \in DOMAIN tasks
    /\ resp.route = LOGIN
    /\ resp.req.email = "b@x"
    /\ resp.req.password = "Passw0rd"
    /\ resp.status = 401

\* C19: a task stored by POST /tasks has the caller's id as userId, and a
\* request whose body names a userId stores nothing; the userId of a stored
\* task is the same after every step that keeps the task.
C19_OwnerFixed ==
    [][/\ \A id \in DOMAIN tasks' \ DOMAIN tasks :
            /\ resp'.route = "POST /tasks"
            /\ resp'.status = 201
            /\ resp'.caller \in DOMAIN users
            /\ tasks'[id].userId = resp'.caller
            /\ resp'.body.task.userId = resp'.caller
       /\ resp'.route = "POST /tasks" /\ "userId" \in DOMAIN resp'.req.dto =>
            tasks' = tasks
       /\ \A id \in DOMAIN tasks \cap DOMAIN tasks' :
            tasks'[id].userId = tasks[id].userId]_vars

\* the admin has changed the title of user 2's task
C19_Witness ==
    /\ resp.route = PATCH_TASK
    /\ resp.status = 200
    /\ resp.caller = 1
    /\ resp.req.id = StoredTaskId
    /\ tasks[StoredTaskId].title = CALL
    /\ tasks[StoredTaskId].userId = 2

\* C20 as stated: after a successful PATCH or PUT every column of the task
\* named in the patch has the patch's value, every other column of it and
\* every other task is as before.
C20_ExactlyThePatch ==
    [][resp'.route \in {PATCH_TASK, PUT_TASK} /\ resp'.status = 200 =>
            LET id == resp'.req.id
                patch == resp'.req.patch
            IN /\ DOMAIN tasks' = DOMAIN tasks
               /\ \A other \in DOMAIN tasks \ {id} : tasks'[other] = tasks[other]
               /\ \A f \in TaskColumns :
                     tasks'[id][f] = IF f \in DOMAIN patch THEN patch[f]
                                     ELSE tasks[id][f]]_vars

\* C20: after a successful PATCH or PUT every column of the task named in
\* the patch has the patch's value; every other column of it except
\* updatedAt, and every other task, is as before; updatedAt is as before
\* exactly when no column named in the patch got a new value, so an empty
\* patch changes nothing.
C20_PatchAndUpdatedAt ==
    [][resp'.route \in {PATCH_TASK, PUT_TASK} /\ resp'.status = 200 =>
            LET id == resp'.req.id
                patch == resp'.req.patch
            IN /\ DOMAIN tasks' = DOMAIN tasks
               /\ \A other \in DOMAIN tasks \ {id} : tasks'[other] = tasks[other]
               /\ \A f \in TaskColumns \ {"updatedAt"} :
                     tasks'[id][f] = IF f \in DOMAIN patch THEN patch[f]
                                     ELSE tasks[id][f]
               /\ tasks'[id].updatedAt = tasks[id].updatedAt
                     <=> \A f \in DOMAIN patch : patch[f] = tasks[id][f]
               /\ tasks'[id].updatedAt >= tasks[id].updatedAt
               /\ patch = NoPatch => tasks' = tasks]_vars

\* a PUT with two fields has rewritten the stored task
C20_Witness ==
    /\ resp.route = PUT_TASK
    /\ resp.status = 200
    /\ resp.req.id = StoredTaskId
    /\ tasks[StoredTaskId].title = CALL
    /\ tasks[StoredTaskId].priority = HIGH
    /\ tasks[StoredTaskId].status = TODO
    /\ tasks[StoredTaskId].updatedAt = 1

(***************************************************************************)
(*              Claims about token subjects and user payloads              *)
(***************************************************************************)
\* C14: when a request carries a token that verifies and whose subject is
\* not a stored user, or is a stored inactive user, validateUser returns
\* null without an error, and the request is answered 401 with no user
\* attached and no handler run.
C14_NullIsUnauthorized ==
    [][/\ resp' # Idle
       /\ "tok" \in DOMAIN resp'.req
       /\ JwtVerify(resp'.req.tok)
       /\ \/ resp'.req.tok.sub \notin DOMAIN users
          \/ ~users[resp'.req.tok.sub].isActive
       => /\ ValidateUser(resp'.req.tok) = Ok(NoUser)
          /\ resp'.status = 401
          /\ resp'.caller = 0
          /\ ~resp'.ran]_vars

\* C15: no response body holds a password: not the user view of register
\* and login, not a User returned by the users routes, not the user loaded
\* with a task.
C15_NoPasswordInResponse ==
    /\ resp.body.kind = "auth" => "password" \notin DOMAIN resp.body.user
    /\ resp.body.kind = "user" => "password" \notin DOMAIN resp.body.user
    /\ resp.body.kind = "users" =>
          \A i \in 1..Len(resp.body.data) : "password" \notin DOMAIN resp.body.data[i]
    /\ resp.body.kind = "task" /\ "user" \in DOMAIN resp.body.task =>
          "password" \notin DOMAIN resp.body.task.user

(***************************************************************************)
(*                       Claims about the list query                       *)
(***************************************************************************)
\* `part` occurs in `text`, letter case aside
Contains(text, part) ==
    \E i \in 0..(Len(text) - Len(part)) :
        SubSeq(LowerText(text), i + 1, i + Len(part)) = LowerText(part)

\* the stored tasks a list call of `caller` with criteria `dto` is to show
Wanted(caller, dto) ==
    {id \in DOMAIN tasks :
        /\ tasks[id].userId = caller
        /\ dto.status # "" => tasks[id].status = dto.status
        /\ dto.priority # "" => tasks[id].priority = dto.priority
        /\ dto.search # <<>> =>
              \/ Contains(tasks[id].title, dto.search)
              \/ Contains(tasks[id].description, dto.search)}

ListedIds(r) == {r.body.data[i].id : i \in 1..Len(r.body.data)}

\* C16: the rows of a list result are stored tasks of the caller that have
\* the status and the priority asked for and hold the search text in title
\* or description, letter case aside; when they all fit on the page asked
\* for, every such task is listed.
C16_FiltersAndSearch ==
    resp.route = LIST /\ resp.status = 200 =>
        LET dto == ToFilterDto(resp.req.q)
            wanted == Wanted(resp.caller, dto)
        IN /\ ListedIds(resp) \subseteq wanted
           /\ \A i \in 1..Len(resp.body.data) :
                 resp.body.data[i] = tasks[resp.body.data[i].id]
           /\ dto.page = 1 /\ Cardinality(wanted) <= dto.limit =>
                 ListedIds(resp) = wanted

\* C17: with total the number of rows that match the filters,
\* meta.total = total, meta.totalPages is the least k with k * limit >= total,
\* hasNextPage = (page < totalPages), hasPreviousPage = (page > 1), and data
\* holds, newest first, the matching rows of ranks (page-1)*limit + 1 to
\* page*limit that exist (none when page > totalPages).
C17_PageMeta ==
    resp.route = LIST /\ resp.status = 200 =>
        LET dto == ToFilterDto(resp.req.q)
            user == users[resp.caller]
            ids == Matching(dto, user)
            total == Cardinality(ids)
            meta == resp.body.meta
            data == resp.body.data
            skip == (dto.page - 1) * dto.limit
            left == IF total > skip THEN total - skip ELSE 0
        IN /\ meta.total = total /\ meta.page = dto.page /\ meta.limit = dto.limit
           /\ meta.totalPages * dto.limit >= total
           /\ meta.totalPages >= 0
           /\ meta.totalPages > 0 => (meta.totalPages - 1) * dto.limit < total
           /\ meta.hasNextPage = (dto.page < meta.totalPages)
           /\ meta.hasPreviousPage = (dto.page > 1)
           /\ Len(data) = IF left < dto.limit THEN left ELSE dto.limit
           /\ dto.page > meta.totalPages => data = <<>>
           /\ \A i \in 1..Len(data) :
                 /\ data[i].id \in ids
                 /\ data[i] = tasks[data[i].id]
                 /\ Cardinality({id \in ids : tasks[id].createdAt > data[i].createdAt})
                       = skip + i - 1
           /\ total = 25 /\ dto.page = 3 /\ dto.limit = 10 =>
                 /\ meta.totalPages = 3
                 /\ ~meta.hasNextPage
                 /\ meta.hasPreviousPage

\* page 3 of 25 rows, ten to a page: the five oldest rows
C17_Witness ==
    /\ resp.route = LIST
    /\ resp.status = 200
    /\ resp.body.meta.total = 25
    /\ resp.body.meta.page = 3
    /\ resp.body.meta.limit = 10
    /\ resp.body.meta.totalPages = 3
    /\ Len(resp.body.data) = 5
    /\ resp.body.data[1].id = 5
    /\ resp.body.data[5].id = 1

(***************************************************************************)
(*                          Claims about failures                          *)
(***************************************************************************)
\* C18: the body of every failure response has the properties statusCode,
\* timestamp, path, method and message, and for a thrown value that is not
\* an HttpException the status is 500 and the message is one fixed text,
\* whatever the message of the thrown error.
C18_StructuredFailure ==
    resp.body.kind = "error" =>
        /\ {"statusCode", "timestamp", "path", "method", "message"}
              \subseteq DOMAIN resp.body
        /\ resp.req.exception.kind # "HttpException" =>
              /\ resp.status = 500
              /\ resp.body.statusCode = 500
              /\ resp.body.message = [text |-> "Internal server error"]

(***************************************************************************)
(*                    Claims about the task operations                     *)
(***************************************************************************)
\* C21: findOne(id, caller), for every id and every stored user, fails with
\* 404 when no task has the id, whoever the caller is, fails with 403 when
\* the task is stored, owned by another user and the caller is not an
\* admin, and otherwise returns the stored task of that id; a GET, PATCH
\* or DELETE of a task whose handler ran ends with the outcome of findOne.
C21_GetOutcome ==
    [][/\ \A id \in TaskParams \ {0} : \A caller \in DOMAIN users :
            LET found == TasksFindOne(id, users[caller]) IN
            IF id \notin DOMAIN tasks THEN found.status = 404
            ELSE IF tasks[id].userId # caller /\ users[caller].role # ADMIN
                 THEN found.status = 403
            ELSE /\ found.status = 200
                 /\ found.task.id = id
                 /\ Columns(found.task) = tasks[id]
       /\ resp'.route \in {GET_TASK, PATCH_TASK, DELETE_TASK} /\ resp'.ran =>
            LET id == resp'.req.id
                caller == resp'.caller
            IN IF id \notin DOMAIN tasks THEN resp'.status = 404
               ELSE IF tasks[id].userId # caller /\ users[caller].role # ADMIN
                    THEN resp'.status = 403
               ELSE /\ resp'.status \in {200, 204}
                    /\ resp'.route = GET_TASK =>
                          /\ resp'.body.task.id = id
                          /\ Columns(resp'.body.task) = tasks[id]]_vars

\* a user who is not an admin asks for a task that is not stored
C21_Witness ==
    /\ resp.route = GET_TASK
    /\ resp.ran
    /\ resp.status = 404
    /\ users[resp.caller].role = USER
    /\ resp.req.id \notin DOMAIN tasks
    /\ resp.req.id >= 1

STATISTICS == "GET /tasks/statistics"

\* C22: the body of a GET /tasks/statistics response is the statistics of
\* the caller's tasks as stored: total is the number of the caller's tasks,
\* byStatus[s] the number of them with status s, and total the sum of the
\* byStatus counts.
C22_StatisticsOfCaller ==
    resp.route = STATISTICS /\ resp.status = 200 =>
        LET mine == {id \in DOMAIN tasks : tasks[id].userId = resp.caller}
            byStatus == resp.body.byStatus
        IN /\ resp.body.total = Cardinality(mine)
           /\ \A st \in TaskStatus :
                 IF \E id \in mine : tasks[id].status = st
                 THEN /\ st \in DOMAIN byStatus
                      /\ byStatus[st] = Cardinality({id \in mine : tasks[id].status = st})
                 ELSE st \notin DOMAIN byStatus
           /\ resp.body = TasksStatistics(users[resp.caller])

(***************************************************************************)
(*                      Claims about path parameters                       *)
(***************************************************************************)
IdRoutes ==
    {GET_TASK, PATCH_TASK, PUT_TASK, DELETE_TASK,
     "GET /users/:id", "PATCH /users/:id", SOFT_DELETE, HARD_DELETE}

\* the step answers a request to an :id route whose id is no uuid (the
\* path parameter 0)
BadIdRequest == resp'.route \in IdRoutes /\ resp'.req.id = 0

\* the step called no handler and changed no stored row and no cache entry
NothingRan == ~resp'.ran /\ users' = users /\ tasks' = tasks /\ cache' = cache

\* C23 as stated: a request to an :id route whose id is no uuid is answered
\* 400, its handler is not called, and users, tasks and cache are unchanged.
C23_BadIdIs400 == [][BadIdRequest => resp'.status = 400 /\ NothingRan]_vars

\* C23: a request to an :id route whose id is no uuid never reaches its
\* handler and changes neither users, tasks nor cache; it is answered 400
\* when it passes the guards of the route, and with the failure of the
\* guards when it does not.
C23_BadIdStopsAtPipe ==
    [][BadIdRequest =>
        LET tok == resp'.req.tok
            roles == IF resp'.route \in AdminRoutes THEN {ADMIN} ELSE {}
            g == Guards(FALSE, roles, tok)
        IN /\ NothingRan
           /\ resp'.status = IF g.status = 200 THEN 400 ELSE g.status
           /\ tok \in issued /\ tok.sub \in DOMAIN users /\ users[tok.sub].isActive
              /\ users[tok.sub].role = ADMIN => resp'.status = 400]_vars

\* the owner of the stored task sends a PATCH with an id that is no uuid
\* while a GET of the task is cached
C23_Witness ==
    /\ resp.route = PATCH_TASK
    /\ resp.req.id = 0
    /\ resp.caller = 2
    /\ resp.status = 400
    /\ ~resp.ran
    /\ cache # EmptyCache
    /\ StoredTaskId \in DOMAIN tasks
    /\ tasks[StoredTaskId].status = TODO

(***************************************************************************)
(*                    Claims about overlapping requests                    *)
(***************************************************************************)
\* C27: an update or remove answered 403 or 404 changes no task and no
\* cache entry, and a list call that comes next and whose listing was
\* cached before is answered with that cached listing.
C27_FailedWriteKeepsCache ==
    [][/\ resp'.route \in {PATCH_TASK, DELETE_TASK} /\ resp'.status \in {403, 404} =>
            tasks' = tasks /\ cache' = cache
       /\ /\ resp.route \in {PATCH_TASK, DELETE_TASK} /\ resp.status \in {403, 404}
          /\ resp'.route = LIST /\ resp'.status = 200
          /\ <<"cache:", <<"/tasks", resp'.req.q>>>> \in DOMAIN cache
          => /\ resp'.body = cache[<<"cache:", <<"/tasks", resp'.req.q>>>>]
             /\ resp'.source = "interceptor"
             /\ cache' = cache]_vars

\* a remove of another user's task was answered 403 while listings are
\* cached
C27_Witness ==
    /\ resp.route = DELETE_TASK
    /\ resp.status = 403
    /\ resp.req.id \in DOMAIN tasks
    /\ \E q \in Queries : <<"cache:", <<"/tasks", q>>>> \in DOMAIN cache

\* C28: for a stored user that is not active, login with its email has
\* one outcome whatever the password: 401 with the message "Account is
\* deactivated", no token, never "Invalid credentials".
C28_InactiveWhateverPassword ==
    [][/\ \A id \in DOMAIN users : ~users[id].isActive =>
            \A pw \in Passwords :
                AuthLogin([email |-> users[id].email, password |-> pw])
                    = Fail(401, "Account is deactivated")
       /\ /\ resp'.route = LOGIN
          /\ \E id \in DOMAIN users :
                users[id].email = resp'.req.email /\ ~users[id].isActive
          => /\ resp'.status = 401
             /\ resp'.message = "Account is deactivated"
             /\ resp'.body = NoBody
             /\ issued' = issued]_vars

\* a login with a wrong password for a deactivated account
C28_Witness ==
    /\ resp.route = LOGIN
    /\ resp.status = 401
    /\ resp.message = "Account is deactivated"
    /\ \E id \in DOMAIN users :
          /\ users[id].email = resp.req.email
          /\ users[id].password # BcryptHash(resp.req.password)
          /\ ~users[id].isActive

\* C29: whether the guard accepts an issued token is a function of the
\* clock and of the stored row of the token's subject: it accepts, and
\* attaches that row, exactly when the token has not expired and the row
\* is stored and active.  A request carrying an issued token is handled
\* accordingly; a PATCH by the admin sets isActive as sent and leaves the
\* issued tokens alone, so a token issued before a deactivation is
\* rejected while its user is inactive and accepted again afterwards.
C29_AcceptedByStateOnly ==
    [][LET live(tok) == /\ now < tok.exp
                        /\ tok.sub \in DOMAIN users
                        /\ users[tok.sub].isActive
       IN
       /\ \A tok \in issued :
            IF live(tok)
            THEN JwtAuthGuard(FALSE, tok) = Ok(users[tok.sub])
            ELSE JwtAuthGuard(FALSE, tok).status # 200
       /\ resp'.route \in UserRoutes /\ resp'.req.tok \in issued =>
            IF live(resp'.req.tok)
            THEN resp'.caller = resp'.req.tok.sub /\ resp'.status # 401
            ELSE resp'.caller = 0 /\ ~resp'.ran /\ users' = users
       /\ resp'.route = "PATCH /users/:id" /\ resp'.status = 200 =>
            /\ users' = [users EXCEPT ![resp'.req.id] =
                            ObjectAssign(users[resp'.req.id], resp'.req.patch)]
            /\ issued' = issued]_vars

\* user 2, deactivated before the start, is active again and its token
\* from before the deactivation is accepted
C29_Witness ==
    /\ resp.route = "GET /users/me"
    /\ resp.status = 200
    /\ resp.caller = 2
    /\ resp.req.tok.iat = 0
    /\ resp.body.user.id = 2
    /\ users[2].isActive

\* criteria values: those of the queries of the model, each with the four
\* combinations of two sort fields and two sort directions
CriteriaValues ==
    {[ToFilterDto(q) EXCEPT !.sortBy = sortBy, !.sortOrder = sortOrder] :
        q \in Queries \cup FilterQueries \cup PagingQueries,
        sortBy \in {"createdAt", "priority"}, sortOrder \in {"ASC", "DESC"}}

\* two list keys are equal only for one owner id and equal criteria
KeysApart ==
    \A id1, id2 \in 1..3 : \A d1, d2 \in CriteriaValues :
        ListKey(d1, [id |-> id1]) = ListKey(d2, [id |-> id2]) => id1 = id2 /\ d1 = d2

\* the listing `entry` holds rows of `owner` only, and its page, limit and
\* status are those of the criteria `json`
ListingOf(entry, owner, json) ==
    /\ \A i \in 1..Len(entry.data) :
          /\ entry.data[i].userId = owner
          /\ Param(json, "status", entry.data[i].status) = entry.data[i].status
    /\ entry.meta.page = Param(json, "page", 0)
    /\ entry.meta.limit = Param(json, "limit", 0)

\* C30: two list keys are equal only if owner id and criteria are equal;
\* every entry stored under a list key is a listing for the owner and the
\* criteria of the key, and a listing that findAll returns from the cache
\* is one for the caller and the criteria of the call.
C30_KeyIsOwnerAndCriteria ==
    /\ KeysApart
    /\ \A key \in DOMAIN cache : key[1] = "tasks:" =>
          ListingOf(cache[key], key[2], key[3])
    /\ resp.route = LIST /\ resp.status = 200 /\ resp.source = "service" =>
          /\ ListingOf(resp.body, resp.caller, JsonStringify(ToFilterDto(resp.req.q)))
          /\ resp.body =
                cache[<<"tasks:", resp.caller, JsonStringify(ToFilterDto(resp.req.q))>>]

\* two owners have listed with equal criteria and each has its own entry
C30_Witness ==
    \E k1, k2 \in DOMAIN cache :
        /\ k1[1] = "tasks:" /\ k2[1] = "tasks:"
        /\ k1[2] # k2[2]
        /\ k1[3] = k2[3]
        /\ cache[k1] # cache[k2]

\* C24: a list call that starts after every earlier write has completed
\* (a GET /tasks handled in one step) returns the caller's matching tasks
\* as they are stored, also when a list call that missed the cache has
\* stored its result after the reset of a write it overlapped.
C24_NoStaleListing ==
    [][resp'.route = LIST /\ resp'.status = 200 /\ calls' = calls =>
        LET data == resp'.body.data
            wanted == Wanted(resp'.caller, ToFilterDto(resp'.req.q))
        IN /\ \A i \in 1..Len(data) :
                 /\ data[i].id \in DOMAIN tasks
                 /\ data[i] = tasks[data[i].id]
           /\ ListedIds(resp') = wanted
           /\ resp'.body.meta.total = Cardinality(wanted)]_vars

\* C26: once the stored task has been removed it is never stored again,
\* and a get, update or remove of its id that starts afterwards is
\* answered 404, also when an update that loaded the task before the
\* removal saves it afterwards.
C26_RemovedStaysRemoved ==
    [][StoredTaskId \notin DOMAIN tasks =>
        /\ StoredTaskId \notin DOMAIN tasks'
        /\ /\ resp'.route \in {GET_TASK, PATCH_TASK, DELETE_TASK}
           /\ resp'.req.id = StoredTaskId
           => resp'.status = 404]_vars

\* C25: no two stored users have the same email, and a register request
\* that stores no user is answered 409, also when its findByEmail ran
\* before the insert of another request with the same email.
C25_LoserGetsConflict ==
    /\ \A a, b \in DOMAIN users : a # b => users[a].email # users[b].email
    /\ resp.route = REGISTER /\ resp.status # 201 => resp.status = 409

====
